---------------------------- MODULE Spec2Model ----------------------------
(***************************************************************************)
(* State-machine model of the synchronisation primitives of the crate:     *)
(* Mutex (primitives/mutex.rs), RwLock (primitives/rwlock.rs), Arc/Weak    *)
(* (primitives/arc.rs), OneshotChannel (primitives/oneshot_channel.rs),    *)
(* Condvar (condvar.rs).  Every atomic operation of the source is one      *)
(* step; the futex-like wait/wake_one/wake_all of the atomic_wait crate is *)
(* modelled by threads parked at a "sleep" label that a wake (or a         *)
(* spurious wakeup) moves on.                                              *)
(***************************************************************************)
EXTENDS Integers, FiniteSets, Sequences, TLC

Threads == {1, 2, 3}

\* Number of lock()/update/drop rounds every thread of the mutex scenario makes.
Iters == 2

\* Spin bound of lock_contended (100 in the source, mutex.rs:37); the model
\* keeps the counter and the comparison and uses a smaller bound.
SpinLimit == 2

\* Width of the RwLock state word and of its writer-wake counter (32 in the
\* source: AtomicU32); the model keeps the encoding at a smaller width.
WordBits == 4

\* Number of read()/write() calls every thread of the RwLock scenario makes.
RwOps == 2

\* Width of the Arc reference counters (usize in the source); the model keeps
\* the sentinel and the limit at a smaller width.
UsizeBits == 3

\* Number of Arc / Weak operations every thread of the Arc scenario makes.
ArcOps == 2

\* Number of spurious returns of wait(&counter, _) a thread of the condvar
\* scenario may see (unbounded in the source).
SpuriousMax == 1

\* Number of split / send / receive rounds the channel scenario makes.
ChanRounds == 2

\* Messages are 1 .. MaxMsg.
MaxMsg == 2

\* Number of read() calls a reader of the RwLock counter scenario makes at
\* most (it polls without bound in the source).
RwReads == 2

VARIABLES
    pc,          \* position of every thread in its program
    data,        \* the value protected by the lock (Mutex::data, RwLock::value)
    tmp,         \* value a thread has read from the protected data
    iters,       \* rounds / operations a thread has completed
    ret,         \* label a thread continues at when lock() / drop(guard) returns
    mstate,      \* Mutex::state  (0 unlocked, 1 locked, 2 locked with waiters)
    spin_count,  \* lock_contended: spin_count of every thread
    guards,      \* threads that own a live MutexGuard
    rstate,      \* RwLock::state
    wwc,         \* RwLock::write_wake_counter
    st,          \* read()/write(): the local `state` of every thread
    wl,          \* write(): the local `w` of every thread
    rguards,     \* threads that own a live ReadGuard
    wguards,     \* threads that own a live WriteGuard
    strong,      \* ArcData::strong
    weak,        \* ArcData::weak
    nArc,        \* number of live Arc handles
    nWeak,       \* number of live Weak handles
    n,           \* downgrade / upgrade: the local `n`; get_mut: is_unique
    payloadDrops,\* how often ManuallyDrop::drop ran on the payload
    frees,       \* how often the ArcData allocation was freed
    aborted,     \* std::process::abort() was called
    counter,     \* Condvar::counter
    waiters_count, \* Condvar::waiters_count
    cvl,         \* Condvar::wait: the local `counter` of every thread
    role,        \* condvar scenario: "wait", "one" (notify_one) or "all" (notify_all)
    ready,       \* OneshotChannel::ready
    message,     \* OneshotChannel::message (0: uninitialised)
    token,       \* the park token of the receiving thread
    sentv,       \* the value handed to send() in this round (0: none)
    got,         \* the value receive() returned in this round (0: none)
    destroyed,   \* how often the channel destroyed a value in its slot
    locked,      \* SpinLock::locked
    sguards,     \* threads that own a live spin-lock Guard
    leaked       \* ReadGuards handed out by read() and forgotten, never dropped

common == <<pc, data, tmp, iters>>

mutexOnly == <<ret, mstate, spin_count, guards>>

rwVars == <<rstate, wwc, st, wl, rguards, wguards>>

arcVars == <<strong, weak, nArc, nWeak, n, payloadDrops, frees, aborted>>

cvVars == <<counter, waiters_count, cvl, role>>

chVars == <<ready, message, token, sentv, got, destroyed>>

slVars == <<locked, sguards>>

vars == <<common, mutexOnly, rwVars, arcVars, cvVars, chVars, slVars, leaked>>

\* What the steps of one primitive leave alone: the state of the others.
MutexFrame == <<rwVars, arcVars, cvVars, chVars, slVars, leaked>>

RwFrame == <<mutexOnly, arcVars, cvVars, chVars, slVars, leaked>>

ArcFrame == <<data, tmp, mutexOnly, rwVars, cvVars, chVars, slVars, leaked>>

CondvarFrame == <<rwVars, arcVars, chVars, slVars, leaked>>

ChannelFrame == <<data, tmp, mutexOnly, rwVars, arcVars, cvVars, slVars, leaked>>

SpinFrame == <<mutexOnly, rwVars, arcVars, cvVars, chVars, leaked>>

-----------------------------------------------------------------------------
(* Mutex, primitives/mutex.rs *)

\* Mutex::lock, line 28: compare_exchange(0, 1); on failure lock_contended.
\* On success lock() returns the guard (line 31).
MutexLockFast(t) ==
    /\ pc[t] = "m_lock"
    /\ IF mstate = 0
       THEN /\ mstate' = 1
            /\ guards' = guards \cup {t}
            /\ pc' = [pc EXCEPT ![t] = ret[t]]
            /\ UNCHANGED spin_count
       ELSE /\ pc' = [pc EXCEPT ![t] = "m_spin"]
            /\ spin_count' = [spin_count EXCEPT ![t] = 0]
            /\ UNCHANGED <<mstate, guards>>
    /\ UNCHANGED <<ret, data, tmp, iters>>
    /\ UNCHANGED MutexFrame

\* lock_contended, lines 37-40: while state.load() == 1 && spin_count < 100.
MutexSpin(t) ==
    /\ pc[t] = "m_spin"
    /\ IF mstate = 1 /\ spin_count[t] < SpinLimit
       THEN /\ spin_count' = [spin_count EXCEPT ![t] = @ + 1]
            /\ pc' = pc
       ELSE /\ pc' = [pc EXCEPT ![t] = "m_cas2"]
            /\ spin_count' = [spin_count EXCEPT ![t] = 0]
    /\ UNCHANGED <<ret, mstate, guards, data, tmp, iters>>
    /\ UNCHANGED MutexFrame

\* lock_contended, lines 42-44: second compare_exchange(0, 1).
MutexLockRetry(t) ==
    /\ pc[t] = "m_cas2"
    /\ IF mstate = 0
       THEN /\ mstate' = 1
            /\ guards' = guards \cup {t}
            /\ pc' = [pc EXCEPT ![t] = ret[t]]
       ELSE /\ pc' = [pc EXCEPT ![t] = "m_swap"]
            /\ UNCHANGED <<mstate, guards>>
    /\ UNCHANGED <<ret, spin_count, data, tmp, iters>>
    /\ UNCHANGED MutexFrame

\* A slip in the loop condition of line 46: the swap is taken for an
\* acquisition whenever the word was not already 2.
MutexSwapNot2(t) ==
    /\ pc[t] = "m_swap"
    /\ mstate' = 2
    /\ IF mstate # 2
       THEN /\ guards' = guards \cup {t}
            /\ pc' = [pc EXCEPT ![t] = ret[t]]
       ELSE /\ pc' = [pc EXCEPT ![t] = "m_wait"]
            /\ UNCHANGED guards
    /\ UNCHANGED <<ret, spin_count, data, tmp, iters>>
    /\ UNCHANGED MutexFrame

\* lock_contended, line 46: while state.swap(2) != 0.
MutexSwap(t) ==
    /\ pc[t] = "m_swap"
    /\ mstate' = 2
    /\ IF mstate = 0
       THEN /\ guards' = guards \cup {t}
            /\ pc' = [pc EXCEPT ![t] = ret[t]]
       ELSE /\ pc' = [pc EXCEPT ![t] = "m_wait"]
            /\ UNCHANGED guards
    /\ UNCHANGED <<ret, spin_count, data, tmp, iters>>
    /\ UNCHANGED MutexFrame

\* lock_contended, line 47: wait(state, 2) blocks only while the word is 2.
MutexWait(t) ==
    /\ pc[t] = "m_wait"
    /\ pc' = [pc EXCEPT ![t] = IF mstate = 2 THEN "m_sleep" ELSE "m_swap"]
    /\ UNCHANGED <<ret, mstate, spin_count, guards, data, tmp, iters>>
    /\ UNCHANGED MutexFrame

\* atomic_wait::wait may return spuriously.
MutexSpuriousWake(t) ==
    /\ pc[t] = "m_sleep"
    /\ pc' = [pc EXCEPT ![t] = "m_swap"]
    /\ UNCHANGED <<ret, mstate, spin_count, guards, data, tmp, iters>>
    /\ UNCHANGED MutexFrame

\* A drop that releases the word and never calls wake_one.
MutexGuardDropNoWake(t) ==
    /\ pc[t] = "m_drop"
    /\ mstate' = 0
    /\ guards' = guards \ {t}
    /\ pc' = [pc EXCEPT ![t] = ret[t]]
    /\ UNCHANGED <<ret, spin_count, data, tmp, iters>>
    /\ UNCHANGED MutexFrame

\* impl Drop for MutexGuard, line 73: state.swap(0) == 2 decides on wake_one.
MutexGuardDrop(t) ==
    /\ pc[t] = "m_drop"
    /\ mstate' = 0
    /\ guards' = guards \ {t}
    /\ pc' = [pc EXCEPT ![t] = IF mstate = 2 THEN "m_wake" ELSE ret[t]]
    /\ UNCHANGED <<ret, spin_count, data, tmp, iters>>
    /\ UNCHANGED MutexFrame

MutexSleepers == {u \in Threads : pc[u] = "m_sleep"}

\* impl Drop for MutexGuard, line 74: wake_one(state) wakes one thread blocked
\* in wait(state, 2), if there is one.
MutexWakeOne(t) ==
    /\ pc[t] = "m_wake"
    /\ IF MutexSleepers = {}
       THEN /\ pc' = [pc EXCEPT ![t] = ret[t]]
       ELSE /\ \E u \in MutexSleepers :
                 pc' = [pc EXCEPT ![t] = ret[t], ![u] = "m_swap"]
    /\ UNCHANGED <<ret, mstate, spin_count, guards, data, tmp, iters>>
    /\ UNCHANGED MutexFrame

\* The steps of Mutex::lock and of the guard's drop, for one thread.
MutexStep(t) ==
    \/ MutexLockFast(t)
    \/ MutexSpin(t)
    \/ MutexLockRetry(t)
    \/ MutexSwap(t)
    \/ MutexWait(t)
    \/ MutexGuardDrop(t)
    \/ MutexWakeOne(t)

-----------------------------------------------------------------------------
(* The guarded-update scenario: every thread locks, reads the protected      *)
(* value, writes it back incremented and drops the guard (mutex.rs test,    *)
(* lines 84-97, with a counter in place of the vector).                     *)

CounterRead(t) ==
    /\ pc[t] = "cs_read"
    /\ tmp' = [tmp EXCEPT ![t] = data]
    /\ pc' = [pc EXCEPT ![t] = "cs_write"]
    /\ UNCHANGED <<ret, mstate, spin_count, guards, data, iters>>
    /\ UNCHANGED MutexFrame

CounterWrite(t) ==
    /\ pc[t] = "cs_write"
    /\ data' = tmp[t] + 1
    /\ tmp' = [tmp EXCEPT ![t] = 0]
    /\ pc' = [pc EXCEPT ![t] = "m_drop"]
    /\ ret' = [ret EXCEPT ![t] = "round_end"]
    /\ UNCHANGED <<mstate, spin_count, guards, iters>>
    /\ UNCHANGED MutexFrame

CounterRoundEnd(t) ==
    /\ pc[t] = "round_end"
    /\ iters' = [iters EXCEPT ![t] = @ + 1]
    /\ IF iters[t] + 1 < Iters
       THEN /\ pc' = [pc EXCEPT ![t] = "m_lock"]
            /\ ret' = [ret EXCEPT ![t] = "cs_read"]
       ELSE /\ pc' = [pc EXCEPT ![t] = "done"]
            /\ ret' = [ret EXCEPT ![t] = "done"]
    /\ UNCHANGED <<mstate, spin_count, guards, data, tmp>>
    /\ UNCHANGED MutexFrame

CounterStep(t) == CounterRead(t) \/ CounterWrite(t) \/ CounterRoundEnd(t)

\* RwLock::new, rwlock.rs lines 21-27.
RwNew ==
    /\ rstate = 0
    /\ wwc = 0
    /\ st = [t \in Threads |-> 0]
    /\ wl = [t \in Threads |-> 0]
    /\ rguards = {}
    /\ wguards = {}
    /\ leaked = 0

\* Arc::new, arc.rs lines 39-47: strong = 1, weak = 1, one Arc handle.
ArcNew ==
    /\ strong = 1
    /\ weak = 1
    /\ nArc = 1
    /\ nWeak = 0
    /\ n = [t \in Threads |-> 0]
    /\ payloadDrops = 0
    /\ frees = 0
    /\ aborted = FALSE

\* Condvar::new, condvar.rs lines 11-16.
CondvarNew ==
    /\ counter = 0
    /\ waiters_count = 0
    /\ cvl = [t \in Threads |-> 0]

\* OneshotChannel::new, oneshot_channel.rs lines 31-36; no value has been
\* sent, received or destroyed, the receiving thread has no park token.
ChannelNew ==
    /\ ready = FALSE
    /\ message = 0
    /\ token = FALSE
    /\ sentv = 0
    /\ got = 0
    /\ destroyed = 0

\* SpinLock::new, spin_lock.rs lines 24-29.
SpinNew ==
    /\ locked = FALSE
    /\ sguards = {}

\* The scenarios without a condition variable give no thread a role.
NoRoles == role = [t \in Threads |-> "none"]

\* Mutex::new, mutex.rs lines 20-25.
MutexNew ==
    /\ mstate = 0
    /\ spin_count = [t \in Threads |-> 0]
    /\ guards = {}

MutexInit ==
    /\ RwNew
    /\ ArcNew
    /\ MutexNew
    /\ CondvarNew
    /\ ChannelNew
    /\ SpinNew
    /\ NoRoles
    /\ pc = [t \in Threads |-> "m_lock"]
    /\ ret = [t \in Threads |-> "cs_read"]
    /\ data = 0
    /\ tmp = [t \in Threads |-> 0]
    /\ iters = [t \in Threads |-> 0]

MutexThread(t) == MutexStep(t) \/ CounterStep(t)

MutexNext ==
    \/ \E t \in Threads : MutexThread(t)
    \/ \E t \in Threads : MutexSpuriousWake(t)

SpecMutex == MutexInit /\ [][MutexNext]_vars

\* Fair scheduling: every thread that can take a step eventually takes one.
\* A spurious wakeup is never owed to anybody.
FairSpecMutex == SpecMutex /\ \A t \in Threads : WF_vars(MutexThread(t))

-----------------------------------------------------------------------------
(* Claims about the Mutex *)

MutexAllDone == \A t \in Threads : pc[t] = "done"

\* C1: at most one MutexGuard is live at any time, a live guard means the
\* state word is 1 or 2, and when every thread has made its Iters guarded
\* read-increment-write updates the counter is exactly Iters * thread count.
C1_MutexExclusion ==
    /\ Cardinality(guards) <= 1
    /\ (guards # {} => mstate \in {1, 2})
    /\ (MutexAllDone => data = Iters * Cardinality(Threads))

\* All updates made, after a run in which the lock was contended to the end.
C1_Witness == MutexAllDone /\ data = Iters * Cardinality(Threads) /\ mstate = 0

MutexInLock(t) == pc[t] \in {"m_lock", "m_spin", "m_cas2", "m_swap", "m_wait", "m_sleep"}

\* C9: under fair scheduling every lock() call eventually returns with the
\* guard, and every thread finishes: nobody stays blocked in wait().
C9_MutexProgress ==
    /\ \A t \in Threads : (MutexInLock(t) ~> (t \in guards))
    /\ <>MutexAllDone

\* A thread is blocked in wait(state, 2) while the releasing thread is about
\* to call wake_one.
C9_Witness ==
    \E t \in Threads, u \in Threads : pc[t] = "m_sleep" /\ pc[u] = "m_wake" /\ mstate = 0

-----------------------------------------------------------------------------
(* RwLock, primitives/rwlock.rs *)

\* u32::MAX: the state word when a writer holds the lock.
U32Max == 2^WordBits - 1

Wrap(x) == x % (U32Max + 1)

\* A read() that goes for the compare-exchange whatever the low bit is.
RwReadBranchAlways(s) == "rw_r_cas"

\* Where read() continues with a local state s: the compare-exchange of
\* lines 33-42 when s is even, the wait of lines 45-48 when s is odd.
RwReadBranch(s) == IF s % 2 = 0 THEN "rw_r_cas" ELSE "rw_r_wait"

\* Where write() continues with a local state s: lines 56-67 when s <= 1,
\* lines 71-79 when s is even, line 82 otherwise.
RwWriteBranch(s) ==
    IF s <= 1 THEN "rw_w_lock"
    ELSE IF s % 2 = 0 THEN "rw_w_bit" ELSE "rw_w_loadw"

\* The local `state` is read again only by the compare-exchanges and by the
\* reader's wait; everywhere else the next load overwrites it, and the model
\* forgets it there.
RwLive(s, label) ==
    IF label \in {"rw_r_cas", "rw_r_wait", "rw_w_lock", "rw_w_bit"} THEN s ELSE 0

\* A thread starts a read() call.
RwStartRead(t) ==
    /\ pc[t] = "rw_idle"
    /\ iters[t] < RwOps
    /\ pc' = [pc EXCEPT ![t] = "rw_r_load"]
    /\ UNCHANGED <<data, tmp, iters, rwVars>>
    /\ UNCHANGED RwFrame

\* A thread starts a write() call.
RwStartWrite(t) ==
    /\ pc[t] = "rw_idle"
    /\ iters[t] < RwOps
    /\ pc' = [pc EXCEPT ![t] = "rw_w_load"]
    /\ UNCHANGED <<data, tmp, iters, rwVars>>
    /\ UNCHANGED RwFrame

\* A thread has made all its calls.
RwFinish(t) ==
    /\ pc[t] = "rw_idle"
    /\ iters[t] = RwOps
    /\ pc' = [pc EXCEPT ![t] = "done"]
    /\ UNCHANGED <<data, tmp, iters, rwVars>>
    /\ UNCHANGED RwFrame

\* read(), lines 30 and 47: state = self.state.load(Relaxed).
RwReadLoad(t) ==
    /\ pc[t] = "rw_r_load"
    /\ st' = [st EXCEPT ![t] = rstate]
    /\ pc' = [pc EXCEPT ![t] = RwReadBranch(rstate)]
    /\ UNCHANGED <<data, tmp, iters, rstate, wwc, wl, rguards, wguards>>
    /\ UNCHANGED RwFrame

\* read(), lines 33-42: assert!(state < u32::MAX - 2), then
\* compare_exchange_weak(state, state + 2); Ok returns the guard, Err(e)
\* continues with state = e.
RwReadCas(t) ==
    /\ pc[t] = "rw_r_cas"
    /\ IF ~(st[t] < U32Max - 2)
       THEN /\ pc' = [pc EXCEPT ![t] = "panicked"]
            /\ UNCHANGED <<rstate, st, rguards>>
       ELSE IF rstate = st[t]
       THEN /\ rstate' = st[t] + 2
            /\ rguards' = rguards \cup {t}
            /\ st' = [st EXCEPT ![t] = 0]
            /\ pc' = [pc EXCEPT ![t] = "rw_reading"]
       ELSE /\ st' = [st EXCEPT ![t] = rstate]
            /\ pc' = [pc EXCEPT ![t] = RwReadBranch(rstate)]
            /\ UNCHANGED <<rstate, rguards>>
    /\ UNCHANGED <<data, tmp, iters, wwc, wl, wguards>>
    /\ UNCHANGED RwFrame

\* read(), line 46: wait(&self.state, state) blocks only while the word
\* still equals state.
RwReadWait(t) ==
    /\ pc[t] = "rw_r_wait"
    /\ pc' = [pc EXCEPT ![t] = IF rstate = st[t] THEN "rw_r_sleep" ELSE "rw_r_load"]
    /\ st' = [st EXCEPT ![t] = 0]
    /\ UNCHANGED <<data, tmp, iters, rstate, wwc, wl, rguards, wguards>>
    /\ UNCHANGED RwFrame

\* atomic_wait::wait on the state word may return spuriously.
RwReadSpuriousWake(t) ==
    /\ pc[t] = "rw_r_sleep"
    /\ pc' = [pc EXCEPT ![t] = "rw_r_load"]
    /\ UNCHANGED <<data, tmp, iters, rwVars>>
    /\ UNCHANGED RwFrame

\* The reader looks at the protected value through its guard (Deref,
\* lines 95-101) and lets the guard go out of scope.
RwReadValue(t) ==
    /\ pc[t] = "rw_reading"
    /\ tmp' = [tmp EXCEPT ![t] = 0]
    /\ pc' = [pc EXCEPT ![t] = "rw_rd_sub"]
    /\ UNCHANGED <<data, iters, rwVars>>
    /\ UNCHANGED RwFrame

\* impl Drop for ReadGuard, line 106: state.fetch_sub(2) == 3.
RwReadDropSub(t) ==
    /\ pc[t] = "rw_rd_sub"
    /\ rstate' = Wrap(rstate + U32Max + 1 - 2)
    /\ rguards' = rguards \ {t}
    /\ IF rstate = 3
       THEN /\ pc' = [pc EXCEPT ![t] = "rw_rd_bump"]
            /\ UNCHANGED iters
       ELSE /\ pc' = [pc EXCEPT ![t] = "rw_idle"]
            /\ iters' = [iters EXCEPT ![t] = @ + 1]
    /\ UNCHANGED <<data, tmp, wwc, st, wl, wguards>>
    /\ UNCHANGED RwFrame

\* impl Drop for ReadGuard, line 107: write_wake_counter.fetch_add(1).
RwReadDropBump(t) ==
    /\ pc[t] = "rw_rd_bump"
    /\ wwc' = Wrap(wwc + 1)
    /\ pc' = [pc EXCEPT ![t] = "rw_rd_wake"]
    /\ UNCHANGED <<data, tmp, iters, rstate, st, wl, rguards, wguards>>
    /\ UNCHANGED RwFrame

RwWriteSleepers == {u \in Threads : pc[u] = "rw_w_sleep"}

RwReadSleepers == {u \in Threads : pc[u] = "rw_r_sleep"}

\* wake_one(&write_wake_counter): one writer blocked in wait, if any, goes
\* on to line 86 (the reload of the state word).
RwWakeOneWriter(t, next) ==
    IF RwWriteSleepers = {}
    THEN pc' = [pc EXCEPT ![t] = next]
    ELSE \E u \in RwWriteSleepers : pc' = [pc EXCEPT ![t] = next, ![u] = "rw_w_load"]

\* impl Drop for ReadGuard, line 108: wake_one(&write_wake_counter).
RwReadDropWake(t) ==
    /\ pc[t] = "rw_rd_wake"
    /\ RwWakeOneWriter(t, "rw_idle")
    /\ iters' = [iters EXCEPT ![t] = @ + 1]
    /\ UNCHANGED <<data, tmp, rwVars>>
    /\ UNCHANGED RwFrame

\* write(), lines 53 and 86: state = self.state.load(Relaxed).
RwWriteLoad(t) ==
    /\ pc[t] = "rw_w_load"
    /\ st' = [st EXCEPT ![t] = RwLive(rstate, RwWriteBranch(rstate))]
    /\ pc' = [pc EXCEPT ![t] = RwWriteBranch(rstate)]
    /\ UNCHANGED <<data, tmp, iters, rstate, wwc, wl, rguards, wguards>>
    /\ UNCHANGED RwFrame

\* A write() that stores the sentinel whatever the state word holds.
RwWriteLockBlind(t) ==
    /\ pc[t] = "rw_w_lock"
    /\ rstate' = U32Max
    /\ wguards' = wguards \cup {t}
    /\ st' = [st EXCEPT ![t] = 0]
    /\ pc' = [pc EXCEPT ![t] = "rw_wr_read"]
    /\ UNCHANGED <<data, tmp, iters, wwc, wl, rguards>>
    /\ UNCHANGED RwFrame

\* write(), lines 56-67: state <= 1: compare_exchange(state, u32::MAX); Ok
\* returns the guard, Err(e) continues the loop with state = e.
RwWriteLock(t) ==
    /\ pc[t] = "rw_w_lock"
    /\ IF rstate = st[t]
       THEN /\ rstate' = U32Max
            /\ wguards' = wguards \cup {t}
            /\ st' = [st EXCEPT ![t] = 0]
            /\ pc' = [pc EXCEPT ![t] = "rw_wr_read"]
       ELSE /\ st' = [st EXCEPT ![t] = RwLive(rstate, RwWriteBranch(rstate))]
            /\ pc' = [pc EXCEPT ![t] = RwWriteBranch(rstate)]
            /\ UNCHANGED <<rstate, wguards>>
    /\ UNCHANGED <<data, tmp, iters, wwc, wl, rguards>>
    /\ UNCHANGED RwFrame

\* write(), lines 71-79: state even: compare_exchange(state, state + 1); Err(e)
\* continues the loop with state = e.
RwWriteSetBit(t) ==
    /\ pc[t] = "rw_w_bit"
    /\ IF rstate = st[t]
       THEN /\ rstate' = st[t] + 1
            /\ pc' = [pc EXCEPT ![t] = "rw_w_loadw"]
            /\ st' = [st EXCEPT ![t] = 0]
       ELSE /\ st' = [st EXCEPT ![t] = RwLive(rstate, RwWriteBranch(rstate))]
            /\ pc' = [pc EXCEPT ![t] = RwWriteBranch(rstate)]
            /\ UNCHANGED rstate
    /\ UNCHANGED <<data, tmp, iters, wwc, wl, rguards, wguards>>
    /\ UNCHANGED RwFrame

\* write(), line 82: w = self.write_wake_counter.load(Acquire).
RwWriteLoadW(t) ==
    /\ pc[t] = "rw_w_loadw"
    /\ wl' = [wl EXCEPT ![t] = wwc]
    /\ pc' = [pc EXCEPT ![t] = "rw_w_reload"]
    /\ UNCHANGED <<data, tmp, iters, rstate, wwc, st, rguards, wguards>>
    /\ UNCHANGED RwFrame

\* write(), lines 83-84: state = self.state.load(Relaxed); if state >= 2 wait.
RwWriteReload(t) ==
    /\ pc[t] = "rw_w_reload"
    /\ st' = [st EXCEPT ![t] = IF rstate >= 2 THEN 0 ELSE rstate]
    /\ IF rstate >= 2
       THEN /\ pc' = [pc EXCEPT ![t] = "rw_w_wait"]
            /\ UNCHANGED wl
       ELSE /\ pc' = [pc EXCEPT ![t] = RwWriteBranch(rstate)]
            /\ wl' = [wl EXCEPT ![t] = 0]
    /\ UNCHANGED <<data, tmp, iters, rstate, wwc, rguards, wguards>>
    /\ UNCHANGED RwFrame

\* write(), line 85: wait(&self.write_wake_counter, w) blocks only while the
\* counter still equals w.
RwWriteWait(t) ==
    /\ pc[t] = "rw_w_wait"
    /\ pc' = [pc EXCEPT ![t] = IF wwc = wl[t] THEN "rw_w_sleep" ELSE "rw_w_load"]
    /\ wl' = [wl EXCEPT ![t] = 0]
    /\ UNCHANGED <<data, tmp, iters, rstate, wwc, st, rguards, wguards>>
    /\ UNCHANGED RwFrame

\* atomic_wait::wait on the writer-wake counter may return spuriously.
RwWriteSpuriousWake(t) ==
    /\ pc[t] = "rw_w_sleep"
    /\ pc' = [pc EXCEPT ![t] = "rw_w_load"]
    /\ UNCHANGED <<data, tmp, iters, rwVars>>
    /\ UNCHANGED RwFrame

\* The writer's `*rwlock.write() += 1` (test, line 176): read through DerefMut ...
RwWriteValueRead(t) ==
    /\ pc[t] = "rw_wr_read"
    /\ tmp' = [tmp EXCEPT ![t] = data]
    /\ pc' = [pc EXCEPT ![t] = "rw_wr_write"]
    /\ UNCHANGED <<data, iters, rwVars>>
    /\ UNCHANGED RwFrame

\* ... and write back, after which the guard goes out of scope.
RwWriteValueWrite(t) ==
    /\ pc[t] = "rw_wr_write"
    /\ data' = tmp[t] + 1
    /\ tmp' = [tmp EXCEPT ![t] = 0]
    /\ pc' = [pc EXCEPT ![t] = "rw_wd_store"]
    /\ UNCHANGED <<iters, rwVars>>
    /\ UNCHANGED RwFrame

\* A WriteGuard drop that leaves the writer-wait bit in the word.
RwWriteDropStoreBit(t) ==
    /\ pc[t] = "rw_wd_store"
    /\ rstate' = 1
    /\ wguards' = wguards \ {t}
    /\ pc' = [pc EXCEPT ![t] = "rw_wd_bump"]
    /\ UNCHANGED <<data, tmp, iters, wwc, st, wl, rguards>>
    /\ UNCHANGED RwFrame

\* impl Drop for WriteGuard, line 133: state.store(0, Release).
RwWriteDropStore(t) ==
    /\ pc[t] = "rw_wd_store"
    /\ rstate' = 0
    /\ wguards' = wguards \ {t}
    /\ pc' = [pc EXCEPT ![t] = "rw_wd_bump"]
    /\ UNCHANGED <<data, tmp, iters, wwc, st, wl, rguards>>
    /\ UNCHANGED RwFrame

\* impl Drop for WriteGuard, line 134: write_wake_counter.fetch_add(1).
RwWriteDropBump(t) ==
    /\ pc[t] = "rw_wd_bump"
    /\ wwc' = Wrap(wwc + 1)
    /\ pc' = [pc EXCEPT ![t] = "rw_wd_wake"]
    /\ UNCHANGED <<data, tmp, iters, rstate, st, wl, rguards, wguards>>
    /\ UNCHANGED RwFrame

\* impl Drop for WriteGuard, line 136: wake_one(&write_wake_counter).
RwWriteDropWake(t) ==
    /\ pc[t] = "rw_wd_wake"
    /\ RwWakeOneWriter(t, "rw_wd_wakeall")
    /\ UNCHANGED <<data, tmp, iters, rwVars>>
    /\ UNCHANGED RwFrame

\* impl Drop for WriteGuard, line 137: wake_all(&self.state): every reader
\* blocked in wait goes on to line 47 (the reload of the state word).
RwWriteDropWakeAll(t) ==
    /\ pc[t] = "rw_wd_wakeall"
    /\ pc' = [u \in Threads |->
                IF u = t THEN "rw_idle"
                ELSE IF u \in RwReadSleepers THEN "rw_r_load" ELSE pc[u]]
    /\ iters' = [iters EXCEPT ![t] = @ + 1]
    /\ UNCHANGED <<data, tmp, rwVars>>
    /\ UNCHANGED RwFrame

\* The steps one thread takes by itself.
RwThread(t) ==
    \/ RwStartRead(t)
    \/ RwStartWrite(t)
    \/ RwFinish(t)
    \/ RwReadLoad(t)
    \/ RwReadCas(t)
    \/ RwReadWait(t)
    \/ RwReadValue(t)
    \/ RwReadDropSub(t)
    \/ RwReadDropBump(t)
    \/ RwReadDropWake(t)
    \/ RwWriteLoad(t)
    \/ RwWriteLock(t)
    \/ RwWriteSetBit(t)
    \/ RwWriteLoadW(t)
    \/ RwWriteReload(t)
    \/ RwWriteWait(t)
    \/ RwWriteValueRead(t)
    \/ RwWriteValueWrite(t)
    \/ RwWriteDropStore(t)
    \/ RwWriteDropBump(t)
    \/ RwWriteDropWake(t)
    \/ RwWriteDropWakeAll(t)

RwSpurious(t) == RwReadSpuriousWake(t) \/ RwWriteSpuriousWake(t)

RwInit ==
    /\ RwNew
    /\ ArcNew
    /\ MutexNew
    /\ CondvarNew
    /\ ChannelNew
    /\ SpinNew
    /\ NoRoles
    /\ pc = [t \in Threads |-> "rw_idle"]
    /\ ret = [t \in Threads |-> "done"]
    /\ data = 0
    /\ tmp = [t \in Threads |-> 0]
    /\ iters = [t \in Threads |-> 0]

RwNext ==
    \/ \E t \in Threads : RwThread(t)
    \/ \E t \in Threads : RwSpurious(t)

SpecRw == RwInit /\ [][RwNext]_vars

\* Fair scheduling of the threads; spurious wakeups are not owed.
FairSpecRw == SpecRw /\ \A t \in Threads : WF_vars(RwThread(t))

-----------------------------------------------------------------------------
(* Claims about the RwLock *)

\* C2: no guard is live, or exactly one WriteGuard and no ReadGuard, or only
\* ReadGuards.
C2_RwExclusion ==
    \/ rguards = {} /\ wguards = {}
    \/ Cardinality(wguards) = 1 /\ rguards = {}
    \/ rguards # {} /\ wguards = {}

\* Two ReadGuards live at once, with a writer blocked on the wake counter.
C2_Witness ==
    /\ Cardinality(rguards) = 2
    /\ \E t \in Threads : pc[t] = "rw_w_sleep"

RwInRead(t) == pc[t] \in {"rw_r_load", "rw_r_cas", "rw_r_wait", "rw_r_sleep"}

RwInWrite(t) ==
    pc[t] \in {"rw_w_load", "rw_w_lock", "rw_w_bit", "rw_w_loadw", "rw_w_reload",
               "rw_w_wait", "rw_w_sleep"}

RwAllDone == \A t \in Threads : pc[t] = "done"

\* The progress statement in full: under fair scheduling every read() and
\* every write() call returns its guard and every thread completes its calls.
RwProgress ==
    /\ \A t \in Threads : (RwInRead(t) ~> (t \in rguards))
    /\ \A t \in Threads : (RwInWrite(t) ~> (t \in wguards))
    /\ <>RwAllDone

\* C3: no writer stays blocked on the writer-wake counter after the lock has
\* been fully released: there is no state in which the state word is 0, a
\* writer is blocked in wait(&write_wake_counter, w), and every other thread
\* has finished or is blocked too, so that no release will ever wake it.
C3_NoWriterLeftBlocked ==
    ~ /\ rstate = 0
      /\ \E t \in Threads : pc[t] = "rw_w_sleep"
      /\ \A u \in Threads : pc[u] \in {"done", "rw_w_sleep", "rw_r_sleep"}

-----------------------------------------------------------------------------
(* Arc / Weak, primitives/arc.rs *)

\* usize::MAX
UsizeMax == 2^UsizeBits - 1

\* arc.rs line 12
WEAK_COUNT_LOCKED_VAL == UsizeMax

\* arc.rs line 13
COUNT_LIMIT == UsizeMax \div 2

WrapUsize(x) == x % (UsizeMax + 1)

\* A thread is at label l and the process has not aborted.
ArcAt(t, l) == pc[t] = l /\ ~aborted

\* Handles are used through references while an operation runs on them, and
\* a handle that is borrowed cannot be dropped.  Arc and Weak are Send and
\* Sync, so any thread may use or drop any handle.
ArcBorrowed ==
    \E u \in Threads :
        pc[u] \in {"ac_add", "ac_abort", "dg_load", "dg_loop", "gm_cas", "gm_load", "gm_store", "gm_access"}

WeakBorrowed == \E u \in Threads : pc[u] \in {"wc_add", "wc_abort", "up_load", "up_cas"}

\* Handles a caller can use: those not claimed by a drop that has started and
\* not the one a clone was creating when it found the count over the limit
\* (its unit is counted, the process aborts before the handle is returned).
ArcAvail == nArc - Cardinality({u \in Threads : pc[u] \in {"ad_sub", "ac_abort"}})

WeakAvail == nWeak - Cardinality({u \in Threads : pc[u] \in {"wd_sub", "wc_abort"}})

\* A thread calls an operation: it moves to the operation's first step.
ArcCall(t, l) ==
    /\ ArcAt(t, "a_idle")
    /\ iters[t] < ArcOps
    /\ iters' = [iters EXCEPT ![t] = @ + 1]
    /\ pc' = [pc EXCEPT ![t] = l]
    /\ UNCHANGED arcVars
    /\ UNCHANGED ArcFrame

ArcCallClone(t) == ArcAvail >= 1 /\ ArcCall(t, "ac_add")

ArcCallDowngrade(t) == ArcAvail >= 1 /\ ArcCall(t, "dg_load")

ArcCallGetMut(t) == ArcAvail >= 1 /\ ArcCall(t, "gm_cas")

ArcCallDrop(t) ==
    /\ ArcAvail >= (IF ArcBorrowed THEN 2 ELSE 1)
    /\ ArcCall(t, "ad_sub")

WeakCallClone(t) == WeakAvail >= 1 /\ ArcCall(t, "wc_add")

WeakCallUpgrade(t) == WeakAvail >= 1 /\ ArcCall(t, "up_load")

WeakCallDrop(t) ==
    /\ WeakAvail >= (IF WeakBorrowed THEN 2 ELSE 1)
    /\ ArcCall(t, "wd_sub")

\* impl Clone for Arc, lines 119-124: strong.fetch_add(1) >= COUNT_LIMIT aborts.
ArcClone(t) ==
    /\ ArcAt(t, "ac_add")
    /\ strong' = WrapUsize(strong + 1)
    /\ IF strong >= COUNT_LIMIT
       THEN pc' = [pc EXCEPT ![t] = "ac_abort"]
       ELSE pc' = [pc EXCEPT ![t] = "a_idle"]
    /\ nArc' = nArc + 1
    /\ UNCHANGED <<iters, weak, nWeak, n, payloadDrops, frees, aborted>>
    /\ UNCHANGED ArcFrame

\* std::process::abort(), lines 121 and 170.
ArcAbort(t) ==
    /\ ~aborted
    /\ pc[t] \in {"ac_abort", "wc_abort"}
    /\ aborted' = TRUE
    /\ UNCHANGED <<pc, iters, strong, weak, nArc, nWeak, n, payloadDrops, frees>>
    /\ UNCHANGED ArcFrame

\* An Arc drop that destroys the payload whatever the count was.
ArcDropSubAlways(t) ==
    /\ ArcAt(t, "ad_sub")
    /\ strong' = WrapUsize(strong + UsizeMax + 1 - 1)
    /\ nArc' = nArc - 1
    /\ pc' = [pc EXCEPT ![t] = "ad_payload"]
    /\ UNCHANGED <<iters, weak, nWeak, n, payloadDrops, frees, aborted>>
    /\ UNCHANGED ArcFrame

\* impl Drop for Arc, line 129: strong.fetch_sub(1) == 1.
ArcDropSub(t) ==
    /\ ArcAt(t, "ad_sub")
    /\ strong' = WrapUsize(strong + UsizeMax + 1 - 1)
    /\ nArc' = nArc - 1
    /\ pc' = [pc EXCEPT ![t] = IF strong = 1 THEN "ad_payload" ELSE "a_idle"]
    /\ UNCHANGED <<iters, weak, nWeak, n, payloadDrops, frees, aborted>>
    /\ UNCHANGED ArcFrame

\* impl Drop for Arc, lines 130-134: ManuallyDrop::drop of the payload.
ArcDropPayload(t) ==
    /\ ArcAt(t, "ad_payload")
    /\ payloadDrops' = payloadDrops + 1
    /\ pc' = [pc EXCEPT ![t] = "ad_weak"]
    /\ UNCHANGED <<iters, strong, weak, nArc, nWeak, n, frees, aborted>>
    /\ UNCHANGED ArcFrame

\* An Arc drop that forgets the implicit weak unit (mem::forget for drop).
ArcDropKeepWeak(t) ==
    /\ ArcAt(t, "ad_weak")
    /\ pc' = [pc EXCEPT ![t] = "a_idle"]
    /\ UNCHANGED <<iters, arcVars>>
    /\ UNCHANGED ArcFrame

\* impl Drop for Arc, line 136: drop(Weak { ptr }), the implicit weak unit:
\* weak.fetch_sub(1) == 1 (line 179).
ArcDropWeak(t) ==
    /\ ArcAt(t, "ad_weak")
    /\ weak' = WrapUsize(weak + UsizeMax + 1 - 1)
    /\ pc' = [pc EXCEPT ![t] = IF weak = 1 THEN "wd_free" ELSE "a_idle"]
    /\ UNCHANGED <<iters, strong, nArc, nWeak, n, payloadDrops, frees, aborted>>
    /\ UNCHANGED ArcFrame

\* A Weak drop that frees the allocation one unit early (== 2 for == 1).
WeakDropSubEarly(t) ==
    /\ ArcAt(t, "wd_sub")
    /\ weak' = WrapUsize(weak + UsizeMax + 1 - 1)
    /\ nWeak' = nWeak - 1
    /\ pc' = [pc EXCEPT ![t] = IF weak = 2 THEN "wd_free" ELSE "a_idle"]
    /\ UNCHANGED <<iters, strong, nArc, n, payloadDrops, frees, aborted>>
    /\ UNCHANGED ArcFrame

\* impl Drop for Weak, line 179: weak.fetch_sub(1) == 1.
WeakDropSub(t) ==
    /\ ArcAt(t, "wd_sub")
    /\ weak' = WrapUsize(weak + UsizeMax + 1 - 1)
    /\ nWeak' = nWeak - 1
    /\ pc' = [pc EXCEPT ![t] = IF weak = 1 THEN "wd_free" ELSE "a_idle"]
    /\ UNCHANGED <<iters, strong, nArc, n, payloadDrops, frees, aborted>>
    /\ UNCHANGED ArcFrame

\* impl Drop for Weak, lines 180-184: drop(Box::from_raw(ptr)).
WeakFree(t) ==
    /\ ArcAt(t, "wd_free")
    /\ frees' = frees + 1
    /\ pc' = [pc EXCEPT ![t] = "a_idle"]
    /\ UNCHANGED <<iters, strong, weak, nArc, nWeak, n, payloadDrops, aborted>>
    /\ UNCHANGED ArcFrame

\* impl Clone for Weak, lines 168-173: weak.fetch_add(1) >= COUNT_LIMIT aborts.
WeakClone(t) ==
    /\ ArcAt(t, "wc_add")
    /\ weak' = WrapUsize(weak + 1)
    /\ IF weak >= COUNT_LIMIT
       THEN pc' = [pc EXCEPT ![t] = "wc_abort"]
       ELSE pc' = [pc EXCEPT ![t] = "a_idle"]
    /\ nWeak' = nWeak + 1
    /\ UNCHANGED <<iters, strong, nArc, n, payloadDrops, frees, aborted>>
    /\ UNCHANGED ArcFrame

\* Weak::upgrade, lines 143-148: n = strong.load(); n == 0 returns None.
WeakUpgradeLoad(t) ==
    /\ ArcAt(t, "up_load")
    /\ IF strong = 0
       THEN /\ pc' = [pc EXCEPT ![t] = "a_idle"]
            /\ UNCHANGED n
       ELSE /\ pc' = [pc EXCEPT ![t] = "up_cas"]
            /\ n' = [n EXCEPT ![t] = strong]
    /\ UNCHANGED <<iters, strong, weak, nArc, nWeak, payloadDrops, frees, aborted>>
    /\ UNCHANGED ArcFrame

\* An upgrade that adds to strong without comparing it with the value seen.
WeakUpgradeAdd(t) ==
    /\ ArcAt(t, "up_cas")
    /\ strong' = WrapUsize(strong + 1)
    /\ nArc' = nArc + 1
    /\ n' = [n EXCEPT ![t] = 0]
    /\ pc' = [pc EXCEPT ![t] = "a_idle"]
    /\ UNCHANGED <<iters, weak, nWeak, payloadDrops, frees, aborted>>
    /\ UNCHANGED ArcFrame

\* Weak::upgrade, lines 149-158: assert!(n <= COUNT_LIMIT);
\* compare_exchange_weak(n, n + 1): Ok returns the Arc, Err(e) sets n = e
\* and the loop returns None when e is 0.
WeakUpgradeCas(t) ==
    /\ ArcAt(t, "up_cas")
    /\ IF ~(n[t] <= COUNT_LIMIT)
       THEN /\ pc' = [pc EXCEPT ![t] = "panicked"]
            /\ n' = [n EXCEPT ![t] = 0]
            /\ UNCHANGED <<strong, nArc>>
       ELSE IF strong = n[t]
       THEN /\ strong' = n[t] + 1
            /\ nArc' = nArc + 1
            /\ n' = [n EXCEPT ![t] = 0]
            /\ pc' = [pc EXCEPT ![t] = "a_idle"]
       ELSE /\ n' = [n EXCEPT ![t] = strong]
            /\ pc' = [pc EXCEPT ![t] = IF strong = 0 THEN "a_idle" ELSE "up_cas"]
            /\ UNCHANGED <<strong, nArc>>
    /\ UNCHANGED <<iters, weak, nWeak, payloadDrops, frees, aborted>>
    /\ UNCHANGED ArcFrame

\* Arc::downgrade, line 82: n = self.data().strong.load(Relaxed).
ArcDowngradeLoad(t) ==
    /\ ArcAt(t, "dg_load")
    /\ n' = [n EXCEPT ![t] = strong]
    /\ pc' = [pc EXCEPT ![t] = "dg_loop"]
    /\ UNCHANGED <<iters, strong, weak, nArc, nWeak, payloadDrops, frees, aborted>>
    /\ UNCHANGED ArcFrame

\* A downgrade that raises weak with a fetch_add, sentinel or not.
ArcDowngradeAdd(t) ==
    /\ ArcAt(t, "dg_loop")
    /\ weak' = WrapUsize(weak + 1)
    /\ nWeak' = nWeak + 1
    /\ n' = [n EXCEPT ![t] = 0]
    /\ pc' = [pc EXCEPT ![t] = "a_idle"]
    /\ UNCHANGED <<iters, strong, nArc, payloadDrops, frees, aborted>>
    /\ UNCHANGED ArcFrame

\* Arc::downgrade, lines 83-101, one turn of the loop: n at the sentinel
\* reloads n from strong (line 87); otherwise assert!(n <= COUNT_LIMIT) and
\* weak.compare_exchange_weak(n, n + 1): Ok returns the Weak, Err(e) sets n = e.
ArcDowngradeLoop(t) ==
    /\ ArcAt(t, "dg_loop")
    /\ IF n[t] = WEAK_COUNT_LOCKED_VAL
       THEN /\ n' = [n EXCEPT ![t] = strong]
            /\ pc' = pc
            /\ UNCHANGED <<weak, nWeak>>
       ELSE IF ~(n[t] <= COUNT_LIMIT)
       THEN /\ pc' = [pc EXCEPT ![t] = "panicked"]
            /\ n' = [n EXCEPT ![t] = 0]
            /\ UNCHANGED <<weak, nWeak>>
       ELSE IF weak = n[t]
       THEN /\ weak' = n[t] + 1
            /\ nWeak' = nWeak + 1
            /\ n' = [n EXCEPT ![t] = 0]
            /\ pc' = [pc EXCEPT ![t] = "a_idle"]
       ELSE /\ n' = [n EXCEPT ![t] = weak]
            /\ pc' = pc
            /\ UNCHANGED <<weak, nWeak>>
    /\ UNCHANGED <<iters, strong, nArc, payloadDrops, frees, aborted>>
    /\ UNCHANGED ArcFrame

\* Arc::get_mut, lines 57-64: weak.compare_exchange(1, WEAK_COUNT_LOCKED_VAL);
\* on failure return None.
ArcGetMutLock(t) ==
    /\ ArcAt(t, "gm_cas")
    /\ IF weak = 1
       THEN /\ weak' = WEAK_COUNT_LOCKED_VAL
            /\ pc' = [pc EXCEPT ![t] = "gm_load"]
       ELSE /\ pc' = [pc EXCEPT ![t] = "a_idle"]
            /\ UNCHANGED weak
    /\ UNCHANGED <<iters, strong, nArc, nWeak, n, payloadDrops, frees, aborted>>
    /\ UNCHANGED ArcFrame

\* Arc::get_mut, line 68: is_unique = strong.load(Acquire) == 1.
ArcGetMutLoad(t) ==
    /\ ArcAt(t, "gm_load")
    /\ n' = [n EXCEPT ![t] = IF strong = 1 THEN 1 ELSE 0]
    /\ pc' = [pc EXCEPT ![t] = "gm_store"]
    /\ UNCHANGED <<iters, strong, weak, nArc, nWeak, payloadDrops, frees, aborted>>
    /\ UNCHANGED ArcFrame

\* Arc::get_mut, lines 73-78: weak.store(1, Release); None unless is_unique,
\* else the mutable reference to the payload.
ArcGetMutStore(t) ==
    /\ ArcAt(t, "gm_store")
    /\ weak' = 1
    /\ pc' = [pc EXCEPT ![t] = IF n[t] = 1 THEN "gm_access" ELSE "a_idle"]
    /\ n' = [n EXCEPT ![t] = 0]
    /\ UNCHANGED <<iters, strong, nArc, nWeak, payloadDrops, frees, aborted>>
    /\ UNCHANGED ArcFrame

\* The caller is done with the reference get_mut returned.
ArcGetMutRelease(t) ==
    /\ ArcAt(t, "gm_access")
    /\ pc' = [pc EXCEPT ![t] = "a_idle"]
    /\ UNCHANGED <<iters, arcVars>>
    /\ UNCHANGED ArcFrame

ArcThread(t) ==
    \/ ArcCallClone(t)
    \/ ArcCallDowngrade(t)
    \/ ArcCallGetMut(t)
    \/ ArcCallDrop(t)
    \/ WeakCallClone(t)
    \/ WeakCallUpgrade(t)
    \/ WeakCallDrop(t)
    \/ ArcClone(t)
    \/ ArcAbort(t)
    \/ ArcDropSub(t)
    \/ ArcDropPayload(t)
    \/ ArcDropWeak(t)
    \/ WeakDropSub(t)
    \/ WeakFree(t)
    \/ WeakClone(t)
    \/ WeakUpgradeLoad(t)
    \/ WeakUpgradeCas(t)
    \/ ArcDowngradeLoad(t)
    \/ ArcDowngradeLoop(t)
    \/ ArcGetMutLock(t)
    \/ ArcGetMutLoad(t)
    \/ ArcGetMutStore(t)
    \/ ArcGetMutRelease(t)

ArcInit ==
    /\ ArcNew
    /\ RwNew
    /\ MutexNew
    /\ CondvarNew
    /\ ChannelNew
    /\ SpinNew
    /\ NoRoles
    /\ pc = [t \in Threads |-> "a_idle"]
    /\ ret = [t \in Threads |-> "done"]
    /\ data = 0
    /\ tmp = [t \in Threads |-> 0]
    /\ iters = [t \in Threads |-> 0]

ArcNext == \E t \in Threads : ArcThread(t)

SpecArc == ArcInit /\ [][ArcNext]_vars

-----------------------------------------------------------------------------
(* Claims about Arc / Weak *)

ArcQuiet == \A t \in Threads : pc[t] \in {"a_idle", "panicked"}

\* C4: the payload is destroyed at most once, only by the Arc drop that moved
\* strong from 1 to 0 (strong is 0 and no Arc handle is live when it runs),
\* never while an Arc handle is live, and it has been destroyed exactly once
\* as soon as strong is 0 and that drop has run its ManuallyDrop::drop.
C4_PayloadDroppedOnce ==
    /\ payloadDrops <= 1
    /\ (payloadDrops = 1 => nArc = 0 /\ strong = 0)
    /\ \A t \in Threads : pc[t] = "ad_payload" => nArc = 0 /\ strong = 0 /\ payloadDrops = 0
    /\ (strong = 0 /\ (\A t \in Threads : pc[t] # "ad_payload") => payloadDrops = 1)

\* The payload is gone while Weak handles are still live and one of them is
\* being upgraded.
C4_Witness ==
    /\ payloadDrops = 1
    /\ nWeak >= 1
    /\ \E t \in Threads : pc[t] = "up_load"

\* C5: the allocation is freed at most once, only by the decrement that moved
\* weak from 1 to 0 and only after the payload was destroyed and every Arc
\* and Weak handle dropped; once it is freed no operation that reads the
\* counters is in flight; and when every handle is dropped and every
\* operation has returned it has been freed exactly once.
C5_AllocationFreedOnce ==
    /\ frees <= 1
    /\ \A t \in Threads :
          pc[t] = "wd_free" =>
              weak = 0 /\ frees = 0 /\ nArc = 0 /\ nWeak = 0 /\ payloadDrops = 1
    /\ (frees = 1 =>
          /\ weak = 0 /\ nArc = 0 /\ nWeak = 0 /\ payloadDrops = 1
          /\ \A t \in Threads : pc[t] \in {"a_idle", "panicked"})
    /\ (nArc = 0 /\ nWeak = 0 /\ ArcQuiet => frees = 1)

\* Everything dropped, the allocation freed, after Weak handles existed
\* (the counter went above the implicit unit) and were the last to go.
C5_Witness ==
    /\ frees = 1
    /\ ArcQuiet
    /\ \E t \in Threads : iters[t] = ArcOps

\* A step in which thread t's upgrade returns an Arc / returns None.
UpgradeSome(t) == pc[t] = "up_cas" /\ pc'[t] = "a_idle" /\ nArc' = nArc + 1

UpgradeNone(t) == pc[t] \in {"up_load", "up_cas"} /\ pc'[t] = "a_idle" /\ nArc' = nArc

\* C6: upgrade returns an Arc exactly in a step that moves strong from a
\* nonzero value to that value plus one (the payload still alive), returns
\* None exactly in a step that observes strong = 0, and once strong is 0 it
\* stays 0, so that every later upgrade returns None.
C6_Upgrade ==
    [][ /\ (strong = 0 => strong' = 0)
        /\ \A t \in Threads :
             /\ UpgradeSome(t) => strong >= 1 /\ strong' = strong + 1 /\ payloadDrops = 0
             /\ UpgradeNone(t) => strong = 0 /\ strong' = 0 ]_vars

\* An upgrade that loaded a nonzero count finds, at its compare-exchange, that
\* the last Arc has been dropped meanwhile.
C6_Witness == \E t \in Threads : pc[t] = "up_cas" /\ n[t] >= 1 /\ strong = 0 /\ nWeak >= 1

\* C7: get_mut returns access if and only if, at the instant it decides,
\* exactly one Arc handle and no Weak handle exist.  It decides None at the
\* failed compare-exchange of weak, and otherwise at the load of strong.
C7_GetMutIffUnique ==
    [][ \A t \in Threads :
          /\ (pc[t] = "gm_cas" /\ pc'[t] = "a_idle") => ~(nArc = 1 /\ nWeak = 0)
          /\ (pc[t] = "gm_load" /\ pc'[t] = "gm_store") =>
                 ((n'[t] = 1) <=> (nArc = 1 /\ nWeak = 0)) ]_vars

\* The decision at the load of strong alone.
GetMutLoadDecision ==
    [][ \A t \in Threads :
          (pc[t] = "gm_load" /\ pc'[t] = "gm_store") =>
                 ((n'[t] = 1) <=> (nArc = 1 /\ nWeak = 0)) ]_vars

-----------------------------------------------------------------------------
(* Condvar, condvar.rs, on top of the Mutex above.  The scenario is the one *)
(* of the test (lines 54-78): waiters lock, test `*m < 100` and wait while  *)
(* it holds; notifiers lock, store 123, unlock and notify.                  *)

\* The value the notifier stores (line 64) and the waiters' threshold (line 69).
Stored == 123

Threshold == 100

Waiters == {t \in Threads : role[t] = "wait"}

\* test, lines 69 and 74: `while *m < 100` under the guard; when the
\* predicate holds the waiter keeps the value it saw and drops the guard.
CvCheck(t) ==
    /\ pc[t] = "cv_check"
    /\ IF data < Threshold
       THEN /\ pc' = [pc EXCEPT ![t] = "cv_inc"]
            /\ UNCHANGED <<tmp, ret>>
       ELSE /\ tmp' = [tmp EXCEPT ![t] = data]
            /\ pc' = [pc EXCEPT ![t] = "m_drop"]
            /\ ret' = [ret EXCEPT ![t] = "done"]
    /\ UNCHANGED <<data, iters, mstate, spin_count, guards, cvVars>>
    /\ UNCHANGED CondvarFrame

\* Condvar::wait, line 33: waiters_count.fetch_add(1).
CvWaitInc(t) ==
    /\ pc[t] = "cv_inc"
    /\ waiters_count' = WrapUsize(waiters_count + 1)
    /\ pc' = [pc EXCEPT ![t] = "cv_loadc"]
    /\ UNCHANGED <<data, tmp, iters, mutexOnly, counter, cvl, role>>
    /\ UNCHANGED CondvarFrame

\* A wait that loads the counter and blocks without dropping the guard.
CvWaitLoadKeep(t) ==
    /\ pc[t] = "cv_loadc"
    /\ cvl' = [cvl EXCEPT ![t] = counter]
    /\ pc' = [pc EXCEPT ![t] = "cv_wait"]
    /\ UNCHANGED <<data, tmp, iters, mutexOnly, counter, waiters_count, role>>
    /\ UNCHANGED CondvarFrame

\* Condvar::wait, lines 35-38: counter.load(), then drop(guard).
CvWaitLoad(t) ==
    /\ pc[t] = "cv_loadc"
    /\ cvl' = [cvl EXCEPT ![t] = counter]
    /\ pc' = [pc EXCEPT ![t] = "m_drop"]
    /\ ret' = [ret EXCEPT ![t] = "cv_wait"]
    /\ UNCHANGED <<data, tmp, iters, mstate, spin_count, guards, counter, waiters_count, role>>
    /\ UNCHANGED CondvarFrame

\* Condvar::wait, line 40: wait(&counter, counter) blocks only while the
\* word still holds the value loaded at line 35.
CvWaitBlock(t) ==
    /\ pc[t] = "cv_wait"
    /\ pc' = [pc EXCEPT ![t] = IF counter = cvl[t] THEN "cv_sleep" ELSE "cv_dec"]
    /\ UNCHANGED <<data, tmp, iters, mutexOnly, cvVars>>
    /\ UNCHANGED CondvarFrame

\* atomic_wait::wait may return spuriously; iters counts the spurious
\* returns a thread has had.
CvSpuriousWake(t) ==
    /\ pc[t] = "cv_sleep"
    /\ iters[t] < SpuriousMax
    /\ iters' = [iters EXCEPT ![t] = @ + 1]
    /\ pc' = [pc EXCEPT ![t] = "cv_dec"]
    /\ UNCHANGED <<data, tmp, mutexOnly, cvVars>>
    /\ UNCHANGED CondvarFrame

\* Condvar::wait, lines 42-44: waiters_count.fetch_sub(1), then mutex.lock();
\* wait returns the guard to the loop of the test.
CvWaitDec(t) ==
    /\ pc[t] = "cv_dec"
    /\ waiters_count' = WrapUsize(waiters_count + UsizeMax + 1 - 1)
    /\ cvl' = [cvl EXCEPT ![t] = 0]
    /\ pc' = [pc EXCEPT ![t] = "m_lock"]
    /\ ret' = [ret EXCEPT ![t] = "cv_check"]
    /\ UNCHANGED <<data, tmp, iters, mstate, spin_count, guards, counter, role>>
    /\ UNCHANGED CondvarFrame

\* test, line 64: `*mutex.lock() = 123`; the guard is dropped at the end of
\* the statement and the notify of line 65 follows.
CvSet(t) ==
    /\ pc[t] = "cv_set"
    /\ data' = Stored
    /\ pc' = [pc EXCEPT ![t] = "m_drop"]
    /\ ret' = [ret EXCEPT ![t] = "cv_notify"]
    /\ UNCHANGED <<tmp, iters, mstate, spin_count, guards, cvVars>>
    /\ UNCHANGED CondvarFrame

\* notify_one / notify_all, lines 19 and 26: if waiters_count.load() != 0.
CvNotifyLoad(t) ==
    /\ pc[t] = "cv_notify"
    /\ pc' = [pc EXCEPT ![t] = IF waiters_count # 0 THEN "cv_bump" ELSE "done"]
    /\ ret' = [ret EXCEPT ![t] = "done"]
    /\ UNCHANGED <<data, tmp, iters, mstate, spin_count, guards, cvVars>>
    /\ UNCHANGED CondvarFrame

\* A notify that goes on to the wake without advancing the counter.
CvNotifyNoBump(t) ==
    /\ pc[t] = "cv_bump"
    /\ pc' = [pc EXCEPT ![t] = IF role[t] = "one" THEN "cv_wake_one" ELSE "cv_wake_all"]
    /\ UNCHANGED <<data, tmp, iters, mutexOnly, cvVars>>
    /\ UNCHANGED CondvarFrame

\* notify_one / notify_all, lines 20 and 27: counter.fetch_add(1).
CvNotifyBump(t) ==
    /\ pc[t] = "cv_bump"
    /\ counter' = Wrap(counter + 1)
    /\ pc' = [pc EXCEPT ![t] = IF role[t] = "one" THEN "cv_wake_one" ELSE "cv_wake_all"]
    /\ UNCHANGED <<data, tmp, iters, mutexOnly, waiters_count, cvl, role>>
    /\ UNCHANGED CondvarFrame

CvSleepers == {u \in Threads : pc[u] = "cv_sleep"}

\* notify_one, line 21: wake_one(&counter) wakes one thread blocked in
\* wait(&counter, _), if there is one.
CvWakeOne(t) ==
    /\ pc[t] = "cv_wake_one"
    /\ IF CvSleepers = {}
       THEN pc' = [pc EXCEPT ![t] = "done"]
       ELSE \E u \in CvSleepers : pc' = [pc EXCEPT ![t] = "done", ![u] = "cv_dec"]
    /\ UNCHANGED <<data, tmp, iters, mutexOnly, cvVars>>
    /\ UNCHANGED CondvarFrame

\* notify_all, line 28: wake_all(&counter) wakes every thread blocked on it.
CvWakeAll(t) ==
    /\ pc[t] = "cv_wake_all"
    /\ pc' = [u \in Threads |->
                 IF u = t THEN "done"
                 ELSE IF u \in CvSleepers THEN "cv_dec" ELSE pc[u]]
    /\ UNCHANGED <<data, tmp, iters, mutexOnly, cvVars>>
    /\ UNCHANGED CondvarFrame

CvThread(t) ==
    \/ MutexLockFast(t)
    \/ MutexSpin(t)
    \/ MutexLockRetry(t)
    \/ MutexSwap(t)
    \/ MutexWait(t)
    \/ MutexGuardDrop(t)
    \/ MutexWakeOne(t)
    \/ CvCheck(t)
    \/ CvWaitInc(t)
    \/ CvWaitLoad(t)
    \/ CvWaitBlock(t)
    \/ CvWaitDec(t)
    \/ CvSet(t)
    \/ CvNotifyLoad(t)
    \/ CvNotifyBump(t)
    \/ CvWakeOne(t)
    \/ CvWakeAll(t)

\* Thread 1 waits, thread 3 notifies, thread 2 does either.  notify_one wakes
\* one waiter per call, so with two waiters the notifier calls notify_all.
CvRoles ==
    {r \in [Threads -> {"wait", "one", "all"}] :
        /\ r[1] = "wait"
        /\ r[3] # "wait"
        /\ (r[2] = "wait" => r[3] = "all")}

CvInit ==
    /\ MutexNew
    /\ CondvarNew
    /\ RwNew
    /\ ArcNew
    /\ ChannelNew
    /\ SpinNew
    /\ role \in CvRoles
    /\ pc = [t \in Threads |-> "m_lock"]
    /\ ret = [t \in Threads |-> IF role[t] = "wait" THEN "cv_check" ELSE "cv_set"]
    /\ data = 0
    /\ tmp = [t \in Threads |-> 0]
    /\ iters = [t \in Threads |-> 0]

CvNext ==
    \/ \E t \in Threads : CvThread(t)
    \/ \E t \in Threads : MutexSpuriousWake(t)
    \/ \E t \in Threads : CvSpuriousWake(t)

SpecCondvar == CvInit /\ [][CvNext]_vars

\* Fair scheduling of the threads; spurious wakeups are owed to nobody.
FairSpecCondvar == SpecCondvar /\ \A t \in Threads : WF_vars(CvThread(t))

-----------------------------------------------------------------------------
(* Claims about the Condvar *)

\* Thread t is inside Condvar::wait.
CvInWait(t) ==
    \/ pc[t] \in {"cv_inc", "cv_loadc", "cv_wait", "cv_sleep", "cv_dec"}
    \/ pc[t] \in {"m_drop", "m_wake"} /\ ret[t] = "cv_wait"

\* wait has returned the guard to thread t and the predicate holds.
CvReturnedTrue(t) == pc[t] = "cv_check" /\ t \in guards /\ data >= Threshold

\* C8: under fair scheduling a waiter that found the predicate false and
\* called wait eventually has wait return with the predicate true, whatever
\* the interleaving of the notify with its steps between the predicate check
\* and the blocking on the counter; every waiter ends having seen the stored
\* value.
C8_NoMissedWakeup ==
    /\ \A t \in Threads : (CvInWait(t) ~> CvReturnedTrue(t))
    /\ <>(\A t \in Waiters : pc[t] = "done" /\ tmp[t] = Stored)

\* The notify advanced the counter after the waiter loaded it and before the
\* waiter blocks.
C8_Witness ==
    \E t \in Threads : pc[t] = "cv_wait" /\ counter # cvl[t] /\ data >= Threshold

-----------------------------------------------------------------------------
(* OneshotChannel, primitives/oneshot_channel.rs.  Thread 1 owns the        *)
(* channel, calls split and keeps the Receiver (it is not Send, line 27);  *)
(* thread 2 gets the Sender, as in the test (lines 84-94); thread 3 has no  *)
(* part.  A round ends when both halves are consumed or dropped, which the  *)
(* borrow of split requires before the channel is split again or dropped.  *)

Owner == 1

SenderThread == 2

Msgs == 1 .. MaxMsg

\* split, lines 38-51: `*self = Self::new()` drops the old channel value
\* (Drop, lines 71-77: a ready slot is destroyed) and starts afresh; the
\* Sender records the current thread as the one to unpark.
ChanSplit ==
    /\ pc[Owner] = "ch_split"
    /\ destroyed' = IF ready THEN destroyed + 1 ELSE destroyed
    /\ ready' = FALSE
    /\ message' = 0
    /\ sentv' = 0
    /\ got' = 0
    /\ pc' = [pc EXCEPT ![Owner] = "ch_recv", ![SenderThread] = "ch_send"]
    /\ UNCHANGED <<iters, token>>
    /\ UNCHANGED ChannelFrame

\* send, line 56: message.write(v).
ChanSendWrite(v) ==
    /\ pc[SenderThread] = "ch_send"
    /\ message' = v
    /\ sentv' = v
    /\ pc' = [pc EXCEPT ![SenderThread] = "ch_store"]
    /\ UNCHANGED <<iters, ready, token, got, destroyed>>
    /\ UNCHANGED ChannelFrame

\* A send that publishes the flag before it writes the slot.
ChanSendStoreEarly ==
    /\ pc[SenderThread] = "ch_store"
    /\ ready' = TRUE
    /\ message' = 0
    /\ pc' = [pc EXCEPT ![SenderThread] = "ch_unpark"]
    /\ UNCHANGED <<iters, token, sentv, got, destroyed>>
    /\ UNCHANGED ChannelFrame

\* send, line 57: ready.store(true, Release).
ChanSendStore ==
    /\ pc[SenderThread] = "ch_store"
    /\ ready' = TRUE
    /\ pc' = [pc EXCEPT ![SenderThread] = "ch_unpark"]
    /\ UNCHANGED <<iters, message, token, sentv, got, destroyed>>
    /\ UNCHANGED ChannelFrame

\* An unpark that wakes a parked thread and leaves nothing behind otherwise.
ChanSendUnparkLost ==
    /\ pc[SenderThread] = "ch_unpark"
    /\ pc' = [pc EXCEPT ![SenderThread] = "ch_sdone",
                        ![Owner] = IF pc[Owner] = "ch_parked" THEN "ch_swap" ELSE @]
    /\ UNCHANGED <<iters, chVars>>
    /\ UNCHANGED ChannelFrame

\* send, line 58: receiving_thread.unpark() wakes the thread if it is parked
\* and otherwise leaves it the token.
ChanSendUnpark ==
    /\ pc[SenderThread] = "ch_unpark"
    /\ IF pc[Owner] = "ch_parked"
       THEN /\ pc' = [pc EXCEPT ![SenderThread] = "ch_sdone", ![Owner] = "ch_swap"]
            /\ UNCHANGED token
       ELSE /\ pc' = [pc EXCEPT ![SenderThread] = "ch_sdone"]
            /\ token' = TRUE
    /\ UNCHANGED <<iters, ready, message, sentv, got, destroyed>>
    /\ UNCHANGED ChannelFrame

\* The Sender is dropped without a send.
ChanSenderDrop ==
    /\ pc[SenderThread] = "ch_send"
    /\ pc' = [pc EXCEPT ![SenderThread] = "ch_sdone"]
    /\ UNCHANGED <<iters, chVars>>
    /\ UNCHANGED ChannelFrame

\* The owner calls receive (line 63).
ChanReceiveCall ==
    /\ pc[Owner] = "ch_recv"
    /\ pc' = [pc EXCEPT ![Owner] = "ch_swap"]
    /\ UNCHANGED <<iters, chVars>>
    /\ UNCHANGED ChannelFrame

\* The Receiver is dropped without a receive.
ChanReceiverDrop ==
    /\ pc[Owner] = "ch_recv"
    /\ pc' = [pc EXCEPT ![Owner] = "ch_rdone"]
    /\ UNCHANGED <<iters, chVars>>
    /\ UNCHANGED ChannelFrame

\* A receive that tests the flag with a load and leaves it set.
ChanReceiveLoad ==
    /\ pc[Owner] = "ch_swap"
    /\ pc' = [pc EXCEPT ![Owner] = IF ready THEN "ch_read" ELSE "ch_park"]
    /\ UNCHANGED <<iters, chVars>>
    /\ UNCHANGED ChannelFrame

\* receive, line 64: while !ready.swap(false, Acquire).
ChanReceiveSwap ==
    /\ pc[Owner] = "ch_swap"
    /\ ready' = FALSE
    /\ pc' = [pc EXCEPT ![Owner] = IF ready THEN "ch_read" ELSE "ch_park"]
    /\ UNCHANGED <<iters, message, token, sentv, got, destroyed>>
    /\ UNCHANGED ChannelFrame

\* receive, line 65: thread::park() returns at once if the token is there
\* (and consumes it), and blocks otherwise.
ChanPark ==
    /\ pc[Owner] = "ch_park"
    /\ token' = FALSE
    /\ pc' = [pc EXCEPT ![Owner] = IF token THEN "ch_swap" ELSE "ch_parked"]
    /\ UNCHANGED <<iters, ready, message, sentv, got, destroyed>>
    /\ UNCHANGED ChannelFrame

\* thread::park() may return spuriously.
ChanSpuriousUnpark ==
    /\ pc[Owner] = "ch_parked"
    /\ pc' = [pc EXCEPT ![Owner] = "ch_swap"]
    /\ UNCHANGED <<iters, chVars>>
    /\ UNCHANGED ChannelFrame

\* receive, line 67: message.assume_init_read() moves the value out.
ChanReceiveRead ==
    /\ pc[Owner] = "ch_read"
    /\ got' = message
    /\ pc' = [pc EXCEPT ![Owner] = "ch_rdone"]
    /\ UNCHANGED <<iters, ready, message, token, sentv, destroyed>>
    /\ UNCHANGED ChannelFrame

\* test, line 93: the scope ends when both threads are through; the channel
\* is then split again or goes out of scope.
ChanScopeEnd ==
    /\ pc[Owner] = "ch_rdone"
    /\ pc[SenderThread] = "ch_sdone"
    /\ iters' = [iters EXCEPT ![Owner] = @ + 1]
    /\ pc' = [pc EXCEPT ![Owner] = IF iters[Owner] + 1 < ChanRounds THEN "ch_split" ELSE "ch_drop",
                        ![SenderThread] = "done"]
    /\ UNCHANGED chVars
    /\ UNCHANGED ChannelFrame

\* impl Drop for OneshotChannel, lines 71-77: a ready slot is destroyed.
ChanDrop ==
    /\ pc[Owner] = "ch_drop"
    /\ destroyed' = IF ready THEN destroyed + 1 ELSE destroyed
    /\ pc' = [pc EXCEPT ![Owner] = "done"]
    /\ UNCHANGED <<iters, ready, message, token, sentv, got>>
    /\ UNCHANGED ChannelFrame

ChanInit ==
    /\ ChannelNew
    /\ SpinNew
    /\ MutexNew
    /\ CondvarNew
    /\ NoRoles
    /\ RwNew
    /\ ArcNew
    /\ pc = [t \in Threads |-> IF t = Owner THEN "ch_split" ELSE "done"]
    /\ ret = [t \in Threads |-> "done"]
    /\ data = 0
    /\ tmp = [t \in Threads |-> 0]
    /\ iters = [t \in Threads |-> 0]

ChanNext ==
    \/ ChanSplit
    \/ \E v \in Msgs : ChanSendWrite(v)
    \/ ChanSendStore
    \/ ChanSendUnpark
    \/ ChanSenderDrop
    \/ ChanReceiveCall
    \/ ChanReceiverDrop
    \/ ChanReceiveSwap
    \/ ChanPark
    \/ ChanSpuriousUnpark
    \/ ChanReceiveRead
    \/ ChanScopeEnd
    \/ ChanDrop

SpecChannel == ChanInit /\ [][ChanNext]_vars

-----------------------------------------------------------------------------
(* Claims about the OneshotChannel *)

\* The send of this round has written the slot and stored the flag.
ChanPublished == sentv \in Msgs /\ pc[SenderThread] \notin {"ch_send", "ch_store"}

\* C10: receive leaves its loop, reads the slot and returns only after the
\* send of the same split has written the slot and published the flag, the
\* slot then holds the value sent, and the value returned equals it.
C10_ChannelDelivery ==
    /\ pc[Owner] = "ch_read" => ChanPublished /\ message = sentv
    /\ got # 0 => ChanPublished /\ got = sentv
    /\ (pc[Owner] = "ch_rdone" /\ ~ChanPublished => got = 0)

\* receive has returned the value sent in the last round of a reused
\* channel, the sender's unpark having found the receiver not parked.
C10_Witness ==
    /\ pc[Owner] = "ch_rdone"
    /\ got \in Msgs
    /\ got = sentv
    /\ token
    /\ iters[Owner] = ChanRounds - 1

\* The step in which the channel value is dropped: by the assignment in
\* split or by the channel going out of scope.
ChanDropStep == pc[Owner] \in {"ch_split", "ch_drop"} /\ pc'[Owner] # pc[Owner]

\* C11: a sent value is handed to the receiver or destroyed by the channel,
\* once in total.  The drop of the channel value (in split or at the end)
\* destroys exactly one value if the round's send happened and its receive
\* did not, and none if the value was received or nothing was sent; no other
\* step destroys anything; once receive has taken the value the flag is
\* clear.
C11_ValueOwnership ==
    [][ /\ (got # 0 => ~ready)
        /\ (ChanDropStep =>
               destroyed' = destroyed + (IF sentv \in Msgs /\ got = 0 THEN 1 ELSE 0))
        /\ (~ChanDropStep => destroyed' = destroyed) ]_vars

\* The first round's value was sent, never received and destroyed by the
\* second split; the second round's value has been received.
C11_Witness == destroyed = 1 /\ got \in Msgs /\ pc[Owner] = "ch_rdone"

\* The steps of send after the slot is written, and the steps of receive:
\* the two threads are scheduled fairly.  A spurious return of park is
\* allowed and never required; whether a half is used or dropped is the
\* caller's choice.
ChanSendSteps == ChanSendStore \/ ChanSendUnpark

ChanReceiveSteps == ChanReceiveSwap \/ ChanPark \/ ChanReceiveRead

FairSpecChannel ==
    /\ SpecChannel
    /\ WF_vars(ChanSendSteps)
    /\ WF_vars(ChanReceiveSteps)

\* send has run to its end (the Sender was not just dropped).
ChanSendDone == pc[SenderThread] = "ch_sdone" /\ sentv \in Msgs

\* The owner is inside receive.
ChanInReceive == pc[Owner] \in {"ch_swap", "ch_park", "ch_parked", "ch_read"}

\* The step by which receive leaves its loop.
ChanLoopExit == pc[Owner] = "ch_swap" /\ pc'[Owner] = "ch_read"

\* C22: receive leaves its loop only by a test-and-clear that finds the flag
\* set by the send of this round (and clears it), and once send has
\* completed a receive in progress eventually returns the value sent,
\* wherever the store and the unpark fell between the receiver's
\* test-and-clear and its park.
C22_Wakeup ==
    /\ [][ChanLoopExit => ready /\ ~ready' /\ ChanPublished]_vars
    /\ (ChanSendDone /\ ChanInReceive) ~> (pc[Owner] = "ch_rdone" /\ got = sentv)

\* In the first round the receiver found the flag clear and is about to
\* park; send has since stored the flag and finished, and its unpark, which
\* came before the park, left the token.
C22_Witness ==
    /\ iters[Owner] = 0
    /\ pc[Owner] = "ch_park"
    /\ ChanSendDone
    /\ ready
    /\ token

-----------------------------------------------------------------------------
(* SpinLock, spin_lock.rs.  Every thread makes Iters rounds of lock, read   *)
(* the protected value, write it back incremented, drop the guard (the     *)
(* test, lines 64-77, with a counter in place of the vector).              *)

\* A lock that sets the flag and takes the guard whatever the flag was.
SpinLockBlind(t) ==
    /\ pc[t] = "sl_lock"
    /\ locked' = TRUE
    /\ sguards' = sguards \cup {t}
    /\ pc' = [pc EXCEPT ![t] = "sl_read"]
    /\ UNCHANGED <<data, tmp, iters>>
    /\ UNCHANGED SpinFrame

\* SpinLock::lock, lines 32-35: while locked.swap(true, Acquire) spin; the
\* swap that returned false returns the Guard.
SpinLockSwap(t) ==
    /\ pc[t] = "sl_lock"
    /\ locked' = TRUE
    /\ IF locked
       THEN UNCHANGED <<pc, sguards>>
       ELSE /\ sguards' = sguards \cup {t}
            /\ pc' = [pc EXCEPT ![t] = "sl_read"]
    /\ UNCHANGED <<data, tmp, iters>>
    /\ UNCHANGED SpinFrame

\* impl Deref for Guard, lines 42-44: read through the guard.
SpinRead(t) ==
    /\ pc[t] = "sl_read"
    /\ tmp' = [tmp EXCEPT ![t] = data]
    /\ pc' = [pc EXCEPT ![t] = "sl_write"]
    /\ UNCHANGED <<data, iters, slVars>>
    /\ UNCHANGED SpinFrame

\* impl DerefMut for Guard, lines 48-50: write through the guard.
SpinWrite(t) ==
    /\ pc[t] = "sl_write"
    /\ data' = tmp[t] + 1
    /\ tmp' = [tmp EXCEPT ![t] = 0]
    /\ pc' = [pc EXCEPT ![t] = "sl_drop"]
    /\ UNCHANGED <<iters, slVars>>
    /\ UNCHANGED SpinFrame

\* impl Drop for Guard, line 55: locked.store(false, Release); the thread
\* then starts its next round or is through.
SpinGuardDrop(t) ==
    /\ pc[t] = "sl_drop"
    /\ locked' = FALSE
    /\ sguards' = sguards \ {t}
    /\ iters' = [iters EXCEPT ![t] = @ + 1]
    /\ pc' = [pc EXCEPT ![t] = IF iters[t] + 1 < Iters THEN "sl_lock" ELSE "done"]
    /\ UNCHANGED <<data, tmp>>
    /\ UNCHANGED SpinFrame

SpinThread(t) ==
    \/ SpinLockSwap(t)
    \/ SpinRead(t)
    \/ SpinWrite(t)
    \/ SpinGuardDrop(t)

SpinInit ==
    /\ SpinNew
    /\ MutexNew
    /\ CondvarNew
    /\ ChannelNew
    /\ NoRoles
    /\ RwNew
    /\ ArcNew
    /\ pc = [t \in Threads |-> "sl_lock"]
    /\ ret = [t \in Threads |-> "done"]
    /\ data = 0
    /\ tmp = [t \in Threads |-> 0]
    /\ iters = [t \in Threads |-> 0]

SpinNext == \E t \in Threads : SpinThread(t)

SpecSpin == SpinInit /\ [][SpinNext]_vars

-----------------------------------------------------------------------------
(* Claims about the SpinLock *)

SpinAllDone == \A t \in Threads : pc[t] = "done"

\* C12: at most one spin-lock Guard is live at any time, the flag is true
\* as long as a Guard is live (lock returns only on the swap that found it
\* false), and when every thread has made its Iters guarded increments the
\* counter is exactly Iters * thread count.
C12_SpinExclusion ==
    /\ Cardinality(sguards) <= 1
    /\ (sguards # {} => locked)
    /\ \A t \in Threads : (pc[t] \in {"sl_read", "sl_write", "sl_drop"} <=> t \in sguards)
    /\ (SpinAllDone => data = Iters * Cardinality(Threads))

\* One thread is in the last guarded update of the run after another
\* thread has finished all of its rounds.
C12_Witness ==
    \E t \in Threads :
        /\ pc[t] = "sl_write"
        /\ tmp[t] = Iters * Cardinality(Threads) - 1
        /\ \E u \in Threads \ {t} : pc[u] = "done"

\* Thread t is blocking on the counter, or past it and not yet back from wait.
CvBlocking(t) ==
    \/ pc[t] \in {"cv_wait", "cv_sleep", "cv_dec"}
    \/ MutexInLock(t) /\ ret[t] = "cv_check"

\* C13: from the moment a waiter starts to block on the counter until wait
\* returns it does not own the mutex, and when wait has returned (the waiter
\* is back at its predicate test) it owns the mutex and nobody else does.
C13_WaitReleasesMutex ==
    \A t \in Threads :
        /\ CvBlocking(t) => t \notin guards
        /\ pc[t] = "cv_check" => guards = {t} /\ mstate \in {1, 2}

\* A waiter is blocked on the counter while a notifier owns the mutex and is
\* about to store the value.
C13_Witness ==
    \E t \in Threads, u \in Threads :
        pc[t] = "cv_sleep" /\ pc[u] = "cv_set" /\ u \in guards

-----------------------------------------------------------------------------
(* The RwLock counter scenario (rwlock.rs test, lines 148-183): writer       *)
(* threads each make RwOps increments under write(), a reader polls read()  *)
(* and asserts on what it sees.  The lock's steps are those of RwThread.    *)

RwWriters == {1, 2}

RwReaders == Threads \ RwWriters

\* writers * increase_per_writer, lines 149-150.
RwTarget == Cardinality(RwWriters) * RwOps

\* A writer starts one of its write() calls (lines 175-177).
RwCtrStartWrite(t) ==
    /\ t \in RwWriters
    /\ RwStartWrite(t)

\* The reader starts another iteration of its loop (lines 156-157) unless
\* the last value it saw was the final one (lines 163-165).
RwCtrStartRead(t) ==
    /\ t \in RwReaders
    /\ iters[t] < RwReads
    /\ tmp[t] # RwTarget
    /\ RwStartRead(t)

\* A writer is through after its increments, the reader when it has seen
\* the final value (or has polled RwReads times).
RwCtrFinish(t) ==
    /\ pc[t] = "rw_idle"
    /\ IF t \in RwWriters THEN iters[t] = RwOps ELSE iters[t] = RwReads \/ tmp[t] = RwTarget
    /\ pc' = [pc EXCEPT ![t] = "done"]
    /\ UNCHANGED <<data, tmp, iters, rwVars>>
    /\ UNCHANGED RwFrame

\* The reader's loop body, lines 159-162, under the ReadGuard: it asserts
\* *val <= writers * increase_per_writer and prev_val <= *val and keeps
\* *val as prev_val (tmp).
RwCtrRead(t) ==
    /\ pc[t] = "rw_reading"
    /\ IF data <= RwTarget /\ tmp[t] <= data
       THEN /\ tmp' = [tmp EXCEPT ![t] = data]
            /\ pc' = [pc EXCEPT ![t] = "rw_rd_sub"]
       ELSE /\ pc' = [pc EXCEPT ![t] = "panicked"]
            /\ UNCHANGED tmp
    /\ UNCHANGED <<data, iters, rwVars>>
    /\ UNCHANGED RwFrame

RwCtrThread(t) ==
    \/ RwCtrStartRead(t)
    \/ RwCtrStartWrite(t)
    \/ RwCtrFinish(t)
    \/ RwCtrRead(t)
    \/ RwReadLoad(t)
    \/ RwReadCas(t)
    \/ RwReadWait(t)
    \/ RwReadDropSub(t)
    \/ RwReadDropBump(t)
    \/ RwReadDropWake(t)
    \/ RwWriteLoad(t)
    \/ RwWriteLock(t)
    \/ RwWriteSetBit(t)
    \/ RwWriteLoadW(t)
    \/ RwWriteReload(t)
    \/ RwWriteWait(t)
    \/ RwWriteValueRead(t)
    \/ RwWriteValueWrite(t)
    \/ RwWriteDropStore(t)
    \/ RwWriteDropBump(t)
    \/ RwWriteDropWake(t)
    \/ RwWriteDropWakeAll(t)

\* prev_val starts at -1 (line 155).
RwCtrInit ==
    /\ RwNew
    /\ ArcNew
    /\ MutexNew
    /\ CondvarNew
    /\ ChannelNew
    /\ SpinNew
    /\ NoRoles
    /\ pc = [t \in Threads |-> "rw_idle"]
    /\ ret = [t \in Threads |-> "done"]
    /\ data = 0
    /\ tmp = [t \in Threads |-> IF t \in RwReaders THEN -1 ELSE 0]
    /\ iters = [t \in Threads |-> 0]

RwCtrNext ==
    \/ \E t \in Threads : RwCtrThread(t)
    \/ \E t \in Threads : RwSpurious(t)

SpecRwCounter == RwCtrInit /\ [][RwCtrNext]_vars

\* C14: every value a reader observes is at most writers * increments, the
\* values one reader observes never decrease (neither assertion of its loop
\* fails), and when every thread is through the value is exactly
\* writers * increments.
C14_RwCounter ==
    [][ /\ \A t \in RwReaders :
             /\ tmp'[t] <= RwTarget
             /\ tmp[t] <= tmp'[t]
             /\ pc'[t] # "panicked"
        /\ data' <= RwTarget
        /\ ((\A t \in Threads : pc'[t] = "done") => data' = RwTarget) ]_vars

\* The reader has seen an intermediate value and sees the final one in its
\* next read, with both writers through.
C14_Witness ==
    \E t \in RwReaders :
        /\ pc[t] = "rw_reading"
        /\ tmp[t] \in 1 .. (RwTarget - 1)
        /\ data = RwTarget
        /\ \A u \in RwWriters : pc[u] = "done"

-----------------------------------------------------------------------------
(* More claims about Arc / Weak *)

\* C15: Arc::new leaves strong = 1 and weak = 1, and whenever no Arc / Weak
\* operation is in flight strong is the number of live Arc handles and weak
\* is the number of live Weak handles plus one if an Arc handle is live.
C15_CounterAccounting ==
    ArcQuiet /\ ~aborted =>
        /\ strong = nArc
        /\ weak = nWeak + (IF nArc >= 1 THEN 1 ELSE 0)

\* Nothing in flight, with two Arc and two Weak handles live.
C15_Witness == ArcQuiet /\ ~aborted /\ nArc = 2 /\ nWeak = 2 /\ weak = 3

\* Threads that hold the mutable reference a get_mut call returned.
GetMutHolders == {t \in Threads : pc[t] = "gm_access"}

\* C16: while one caller holds the mutable access get_mut gave it, no other
\* get_mut call on the object returns access: at most one mutable access to
\* the payload is live at any time.
C16_GetMutExclusive == Cardinality(GetMutHolders) <= 1

-----------------------------------------------------------------------------
(* More claims about the Mutex *)

\* The step in which thread t's guard drop swaps the state word.
MutexDropStep(t) == pc[t] = "m_drop" /\ pc'[t] # "m_drop"

\* The step in which thread t calls wake_one.
MutexWakeStep(t) == pc[t] = "m_wake" /\ pc'[t] # "m_wake"

\* Threads inside lock_contended: spinning, retrying, about to block or
\* blocked in wait.
MutexContenders == {u \in Threads : pc[u] \in {"m_spin", "m_cas2", "m_swap", "m_wait", "m_sleep"}}

\* C17: the guard's drop swaps the state to 0 and calls wake_one exactly when
\* the previous state was 2, and whenever it calls wake_one some thread is
\* sleeping on the state word.  Sleeping is read here as widely as it can
\* be: blocked in wait, about to block, or anywhere else in lock_contended.
C17_WakeOnlySleepers ==
    [][ \A t \in Threads :
          /\ MutexDropStep(t) => mstate' = 0 /\ (pc'[t] = "m_wake" <=> mstate = 2)
          /\ MutexWakeStep(t) => MutexContenders # {} ]_vars

\* C17 as it holds: the drop swaps the state to 0 and calls wake_one exactly
\* when the previous state was 2, and the word becomes 2 only by the swap of
\* a lock_contended call, so that locking and unlocking without contention
\* never reaches wake_one; a thread need not be sleeping when it is called.
C17_WakeOnlyAfterContention ==
    [][ /\ \A t \in Threads :
             MutexDropStep(t) => mstate' = 0 /\ (pc'[t] = "m_wake" <=> mstate = 2)
        /\ (mstate' = 2 /\ mstate # 2 =>
               \E t \in Threads : pc[t] = "m_swap" /\ pc'[t] # "m_swap")
        /\ \A t \in Threads :
             pc'[t] = "m_wake" /\ pc[t] # "m_wake" => MutexDropStep(t) ]_vars

\* A drop is about to call wake_one while no thread is inside lock(): the
\* thread that had set the word to 2 has taken the lock and finished.
C17_Witness ==
    \E t \in Threads :
        /\ pc[t] = "m_wake"
        /\ \A u \in Threads \ {t} : pc[u] = "done"

-----------------------------------------------------------------------------
(* More claims about the RwLock *)

\* The reader count a state word encodes (no reader under the sentinel).
RwReaderCount(s) == IF s = U32Max THEN 0 ELSE s \div 2

\* C18: while the state word is odd (writer-wait bit or sentinel) no read()
\* acquires a ReadGuard and the encoded reader count only decreases; the
\* word becomes even again only by the store of 0 in the drop of a WriteGuard,
\* that is after a writer has acquired and released the lock.
C18_WriterPreference ==
    [][ rstate % 2 = 1 =>
          /\ rguards' \subseteq rguards
          /\ (rstate' % 2 = 1 /\ rstate' # U32Max =>
                 RwReaderCount(rstate') <= RwReaderCount(rstate))
          /\ (rstate' % 2 = 0 =>
                 /\ rstate = U32Max /\ rstate' = 0
                 /\ \E t \in Threads : t \in wguards /\ wguards' = wguards \ {t}) ]_vars

\* A read() call is blocked by the writer-wait bit while another reader
\* still holds its guard.
C18_Witness ==
    /\ rstate = 3
    /\ rguards # {}
    /\ \E t \in Threads : pc[t] = "rw_r_sleep"

\* Threads inside get_mut between its successful compare-exchange of weak
\* and its store of 1.
WeakLockHolders == {t \in Threads : pc[t] \in {"gm_load", "gm_store"}}

\* A clone has found its counter over COUNT_LIMIT and the process is about
\* to abort, or has.  The limit leaves usize::MAX / 2 further increments
\* before a counter could reach the sentinel; at the width of the model that
\* margin is a handful, so the claims about the sentinel are stated for the
\* states before the first such clone.
ArcOverLimit == aborted \/ \E t \in Threads : pc[t] \in {"ac_abort", "wc_abort"}

\* C19: weak holds the sentinel only between a successful compare-exchange
\* 1 -> sentinel of a get_mut call and that call's store of 1; while it is
\* set no step of any other operation changes weak, a downgrade stays in its
\* loop; and a downgrade that completes has raised weak by exactly one from
\* a value that is not the sentinel.
C19_SentinelProtocol ==
    [][ ArcOverLimit \/
        /\ (weak = WEAK_COUNT_LOCKED_VAL <=> WeakLockHolders # {})
        /\ Cardinality(WeakLockHolders) <= 1
        /\ (weak = WEAK_COUNT_LOCKED_VAL =>
              /\ weak' \in {WEAK_COUNT_LOCKED_VAL, 1}
              /\ (weak' = 1 => \E t \in Threads : pc[t] = "gm_store" /\ pc'[t] # "gm_store")
              /\ \A t \in Threads : pc[t] = "dg_loop" => pc'[t] \in {"dg_loop", "panicked"})
        /\ (weak # WEAK_COUNT_LOCKED_VAL /\ weak' = WEAK_COUNT_LOCKED_VAL =>
              weak = 1 /\ \E t \in Threads : pc[t] = "gm_cas" /\ pc'[t] = "gm_load")
        /\ \A t \in Threads :
              pc[t] = "dg_loop" /\ pc'[t] = "a_idle" =>
                  /\ weak # WEAK_COUNT_LOCKED_VAL
                  /\ weak' = weak + 1
                  /\ weak' # WEAK_COUNT_LOCKED_VAL
                  /\ nWeak' = nWeak + 1 ]_vars

\* A downgrade is in its loop while a get_mut call holds the sentinel.
C19_Witness ==
    /\ weak = WEAK_COUNT_LOCKED_VAL
    /\ ~ArcOverLimit
    /\ \E t \in Threads, u \in Threads : pc[t] = "dg_loop" /\ pc[u] = "gm_store"

\* The encoding of the state word in one state.
RwEncoding ==
    IF wguards # {}
    THEN rstate = U32Max /\ rguards = {}
    ELSE /\ rstate # U32Max
         /\ rstate \div 2 = Cardinality(rguards)
         /\ (rstate % 2 = 1 => \E t \in Threads : RwInWrite(t))

\* C20: with a WriteGuard live the state word is the sentinel; otherwise the
\* word divided by 2 is the number of live ReadGuards, and its low bit is
\* set only by the compare-exchange of a write() call that is still in
\* progress: the bit appears only in that step and goes only by way of the
\* sentinel, so the call that set it has not acquired the lock.
C20_StateEncoding ==
    [][ /\ RwEncoding
        /\ RwEncoding'
        /\ (rstate % 2 = 0 /\ rstate' % 2 = 1 /\ rstate' # U32Max =>
               /\ rstate' = rstate + 1
               /\ \E t \in Threads : pc[t] = "rw_w_bit" /\ pc'[t] = "rw_w_loadw")
        /\ (rstate % 2 = 1 /\ rstate # U32Max => rstate' % 2 = 1) ]_vars

\* Two ReadGuards live and the writer-wait bit set by a writer that now
\* sleeps on the wake counter.
C20_Witness ==
    /\ rstate = 5
    /\ Cardinality(rguards) = 2
    /\ wguards = {}
    /\ \E t \in Threads : pc[t] = "rw_w_sleep"

-----------------------------------------------------------------------------
(* The RwLock with many readers.  A ReadGuard is an ordinary value: its      *)
(* owner may keep it for good (mem::forget), after which the reader it      *)
(* counts in the state word (rwlock.rs lines 33-42) never leaves.  The     *)
(* steps of the lock are those of RwThread.                                *)

\* The thread that keeps its ReadGuards; the others drop theirs.
Forgetter == 1

\* A thread forgets the ReadGuard read() returned to it instead of dropping
\* it, and is free to call read() or write() again.
RwForget(t) ==
    /\ pc[t] = "rw_reading"
    /\ rguards' = rguards \ {t}
    /\ pc' = [pc EXCEPT ![t] = "rw_idle"]
    /\ UNCHANGED <<data, tmp, iters, rstate, wwc, st, wl, wguards>>
    /\ leaked' = leaked + 1
    /\ UNCHANGED <<mutexOnly, arcVars, cvVars, chVars, slVars>>

RwBoundNext ==
    \/ \E t \in Threads : RwThread(t)
    \/ \E t \in Threads : RwSpurious(t)
    \/ RwForget(Forgetter)

SpecRwBound == RwInit /\ [][RwBoundNext]_vars

\* C21: read() aborts instead of acquiring once the reader count is at its
\* bound, the state word never leaves 0 .. 2^w - 1 (no wrap-around), its
\* half counts the ReadGuards handed out and not dropped, and it never
\* equals the sentinel 2^w - 1 while no WriteGuard is live.
C21_ReaderBound ==
    /\ rstate \in 0 .. U32Max
    /\ (wguards = {} => rstate \div 2 = Cardinality(rguards) + leaked)
    /\ (rstate = U32Max => wguards # {})

=============================================================================
